---- MODULE Spec2Model ----
(***************************************************************************)
(* FluidPatcher (src/fluidpatcher/__init__.py): the patch interface that   *)
(* drives a FluidSynth facade from a bank document.  The state is the      *)
(* FluidPatcher object's fields (bank, soundfonts, cfg), the bank files on *)
(* disk, the facade's state (pfluidsynth.Synth), and the outcome of the    *)
(* last call.  Python values are modelled with their dynamic type: a       *)
(* mapping is an insertion-ordered sequence of key/value pairs, a list is  *)
(* a sequence, an absent key is a value of its own.                        *)
(***************************************************************************)
EXTENDS Integers, Sequences, FiniteSets, TLC

\* ------------------------------------------------------------- bounds
\* synth.midi-channels as read at construction (self.max_channels)
MaxChannels == 2
\* the most patches a bank in memory holds (add_patch is not offered beyond it)
MaxPatches == 2
\* the most rules add_router_rule installs on top of a patch's rules
MaxExtraRules == 1

Channels == 1..MaxChannels

\* ------------------------------------------------------ python values
\* dict.get(key) of a missing channel key
None == [sfont |-> "", bank |-> 0, prog |-> 0 - 1]
SFPreset(sfont, bank, prog) == [sfont |-> sfont, bank |-> bank, prog |-> prog]

Absent == [t |-> "absent", v |-> <<>>]
Dict(pairs) == [t |-> "dict", v |-> pairs]
List(items) == [t |-> "list", v |-> items]
\* the value of an expression that raised TypeError
TypeError == [t |-> "TypeError", v |-> <<>>]

KV(k, val) == [k |-> k, val |-> val]
\* self.mfilesdir / file, self.plugindir / lib: an absolute path stays as it is
PathJoin(dir, path) == IF path.dir # "" THEN path ELSE [path EXCEPT !.dir = dir]
PathStr(path) == IF path.dir = "" THEN path.name ELSE path.dir \o "/" \o path.name

SeqToSet(s) == {s[i] : i \in 1..Len(s)}
Reverse(s) == [i \in 1..Len(s) |-> s[Len(s) + 1 - i]]
Keys(pairs) == [i \in 1..Len(pairs) |-> pairs[i].k]
HasKey(pairs, k) == \E i \in 1..Len(pairs) : pairs[i].k = k
Lookup(pairs, k) == pairs[CHOOSE i \in 1..Len(pairs) : pairs[i].k = k].val
\* d[k] = val on an insertion-ordered dict: an existing key keeps its place
DictSet(pairs, k, val) ==
    IF HasKey(pairs, k)
    THEN [i \in 1..Len(pairs) |-> IF pairs[i].k = k THEN KV(k, val) ELSE pairs[i]]
    ELSE Append(pairs, KV(k, val))
DictDel(pairs, k) == SelectSeq(pairs, LAMBDA e : e.k # k)
\* a | b on dicts: a's entries with b's values where b has the key, then b's
\* other entries in b's order
DictOr(a, b) ==
    [i \in 1..Len(a) |-> IF HasKey(b, a[i].k) THEN KV(a[i].k, Lookup(b, a[i].k)) ELSE a[i]]
        \o SelectSeq(b, LAMBDA e : ~HasKey(a, e.k))
\* {k: str(path) for k, path in pairs}
PathValues(pairs) == [i \in 1..Len(pairs) |-> KV(pairs[i].k, PathStr(pairs[i].val))]

\* ------------------------------------------------------ bank document
MapFields == {"fluidsettings", "sequencers", "arpeggiators", "midiplayers", "ladspafx"}
SeqFields == {"sysex", "messages", "router_rules"}

\* a zone is the bank level or one patch: its channel keys (ch) and keyword keys;
\* EmptyZone is the empty dict {}
NoChannels == [c \in Channels |-> None]
EmptyZone ==
    [ch |-> NoChannels, sysex |-> Absent, fluidsettings |-> Absent,
     sequencers |-> Absent, arpeggiators |-> Absent, midiplayers |-> Absent,
     ladspafx |-> Absent, router_rules |-> Absent, messages |-> Absent]
\* zone.get(kw, default)
Get(zone, kw, default) == IF zone[kw].t = "absent" THEN default ELSE zone[kw]

\* self.bank = {} after construction
EmptyBank ==
    [zone |-> EmptyZone, haspatches |-> FALSE, patches |-> <<>>, init |-> EmptyZone]

\* FluidPatcher.patches
patches(bank) == Keys(bank.patches)
\* self.bank.get('patches', {})
BankPatches(bank) == IF bank.haspatches THEN bank.patches ELSE <<>>

\* a patch reference: an int or a str (a str is its sequence of characters)
IntRef(i) == [t |-> "int", i |-> i, s |-> <<>>]
StrRef(s) == [t |-> "str", i |-> 0, s |-> s]

\* FluidPatcher._resolve_patch
NegativeIndex_resolve_patch(bank, patch) ==
    LET n == Len(patches(bank))
        name == IF patch.t = "int"
                THEN IF 0 - n <= patch.i /\ patch.i < n
                     THEN [found |-> TRUE,
                           s |-> patches(bank)[IF patch.i < 0 THEN n + patch.i + 1
                                               ELSE patch.i + 1]]
                     ELSE [found |-> FALSE, s |-> <<>>]
                ELSE [found |-> TRUE, s |-> patch.s]
    IN  IF name.found /\ HasKey(BankPatches(bank), name.s)
        THEN Lookup(BankPatches(bank), name.s)
        ELSE EmptyZone
_resolve_patch(bank, patch) ==
    LET name == IF patch.t = "int"
                THEN IF 0 <= patch.i /\ patch.i < Len(patches(bank))
                     THEN [found |-> TRUE, s |-> patches(bank)[patch.i + 1]]
                     ELSE [found |-> FALSE, s |-> <<>>]
                ELSE [found |-> TRUE, s |-> patch.s]
    IN  IF name.found /\ HasKey(BankPatches(bank), name.s)
        THEN Lookup(BankPatches(bank), name.s)
        ELSE EmptyZone

\* mrg(kw) of apply_patch: dict | dict, and on TypeError list + list
BankWinsMrg(bankzone, patch, kw) ==
    LET a == Get(bankzone, kw, Dict(<<>>))
        b == Get(patch, kw, Dict(<<>>))
    IN  IF a.t = "dict" /\ b.t = "dict"
        THEN Dict(DictOr(b.v, a.v))
        ELSE LET a2 == Get(bankzone, kw, List(<<>>))
                 b2 == Get(patch, kw, List(<<>>))
             IN  IF a2.t = "list" /\ b2.t = "list"
                 THEN List(b2.v \o a2.v)
                 ELSE TypeError
mrg(bankzone, patch, kw) ==
    LET a == Get(bankzone, kw, Dict(<<>>))
        b == Get(patch, kw, Dict(<<>>))
    IN  IF a.t = "dict" /\ b.t = "dict"
        THEN Dict(DictOr(a.v, b.v))
        ELSE LET a2 == Get(bankzone, kw, List(<<>>))
                 b2 == Get(patch, kw, List(<<>>))
             IN  IF a2.t = "list" /\ b2.t = "list"
                 THEN List(a2.v \o b2.v)
                 ELSE TypeError
\* iterating a merged value: a list's items, a dict's keys
Iter(value) == IF value.t = "dict" THEN Keys(value.v) ELSE value.v

\* ------------------------------------------------- synthesizer facade
\* pfluidsynth.Synth as FluidPatcher uses it: the loaded soundfonts, the preset
\* of each channel, the players, the effect chain, the router's rules in
\* installation order, the settings, and the calls of the current operation.
SoundFonts == {"a.sf2", "b.sf2"}
\* the programs a soundfont file holds in its bank 0
SfProgs(sfont) == IF sfont = "a.sf2" THEN {0, 1} ELSE {0}

Call(s, name, args) == [s EXCEPT !.log = Append(@, <<name>> \o args)]
\* one call per item of a for loop, in the loop's order
Calls(s, name, args) == [s EXCEPT !.log = @ \o [i \in 1..Len(args) |-> <<name>> \o args[i]]]
\* the arguments of a call per item, and of a call per key/value pair
ItemArgs(items) == [i \in 1..Len(items) |-> <<items[i]>>]
PairArgs(pairs) == [i \in 1..Len(pairs) |-> <<pairs[i].k, pairs[i].val>>]
PresetStr(p) == <<p.sfont, ToString(p.bank), ToString(p.prog)>>

\* program_select(ch, sfont, bank, prog) succeeds for a preset of a loaded soundfont
program_select_ok(s, p) == p.sfont \in s.sfloaded /\ p.prog \in SfProgs(p.sfont)
\* send_sysex, send_event: once per item
send_sysex(s, items) == Calls(s, "send_sysex", ItemArgs(items))
fsynth_send_event(s, items) == Calls(s, "send_event", ItemArgs(items))
\* setting(opt, val), once per pair
setting(s, pairs) ==
    [Calls(s, "setting", PairArgs(pairs)) EXCEPT
        !.settings = DictOr(@, pairs)]
players_clear(s, save) ==
    [Call(s, "players_clear", save) EXCEPT
        !.players = SelectSeq(@, LAMBDA e : e.k \in SeqToSet(save))]
\* sequencer_add, arpeggiator_add, midiplayer_add, once per pair: a name that
\* is playing keeps its player
player_add(s, kind, pairs) ==
    LET new == SelectSeq(pairs, LAMBDA e : ~HasKey(s.players, e.k))
    IN  [Calls(s, kind, PairArgs(pairs)) EXCEPT
            !.players = @ \o [i \in 1..Len(new) |-> KV(new[i].k, <<kind, new[i].val>>)]]
fxchain_clear(s, save) ==
    [Call(s, "fxchain_clear", save) EXCEPT
        !.fxchain = SelectSeq(@, LAMBDA e : e.k \in SeqToSet(save)),
        !.connected = FALSE]
\* fxchain_add, once per pair: a name in the chain keeps its effect
fxchain_add(s, pairs) ==
    [Calls(s, "fxchain_add", PairArgs(pairs)) EXCEPT
        !.fxchain = @ \o SelectSeq(pairs, LAMBDA e : ~HasKey(s.fxchain, e.k))]
fxchain_connect(s) == [Call(s, "fxchain_connect", <<>>) EXCEPT !.connected = TRUE]
router_default(s) == [Call(s, "router_default", <<>>) EXCEPT !.router = <<"default">>]
router_clear(s) == [Call(s, "router_clear", <<>>) EXCEPT !.router = <<>>]
\* router_addrule, once per rule
router_addrule(s, rules) ==
    [Calls(s, "router_addrule", ItemArgs(rules)) EXCEPT
        !.router = @ \o rules]
reset(s) == Call(s, "reset", <<>>)
\* unload_soundfont, once per soundfont: its presets leave the channels
unload_soundfont(s, sfonts) ==
    [Calls(s, "unload_soundfont", ItemArgs(sfonts)) EXCEPT
        !.sfloaded = @ \ SeqToSet(sfonts),
        !.chan = [c \in Channels |-> IF @[c].sfont \in SeqToSet(sfonts) THEN None ELSE @[c]]]
\* files: the soundfont files the synthesizer can load
load_soundfont_ok(files, sfont) == sfont \in files
\* load_soundfont, once per soundfont
load_soundfont(s, files, sfonts) ==
    [Calls(s, "load_soundfont", ItemArgs(sfonts)) EXCEPT
        !.sfloaded = @ \cup {sfont \in SeqToSet(sfonts) : load_soundfont_ok(files, sfont)}]

\* ------------------------------------------------------- apply_patch
\* str.startswith('synth.') over the option names the documents use
NonSynthOptions == {"midi.autoconnect", "audio.period-size"}
StartsWithSynth(opt) == opt \notin NonSynthOptions

\* FluidPatcher.fluidsetting_set(opt, val) with patch=None, once per pair
fluidsetting_set(s, pairs) == setting(s, SelectSeq(pairs, LAMBDA e : StartsWithSynth(e.k)))
\* FluidPatcher.send_event(msg), once per message
send_event(s, msgs) == fsynth_send_event(s, msgs)

\* the patch argument of fluidsetting_set left at its default, None
NoPatch == [t |-> "none", i |-> 0, s |-> <<>>]
\* the bank in memory after fluidsetting_set(opt, val, patch): with a patch the
\* setting is stored at bank level and deleted from the resolved patch
fluidsetting_set_bank(b, opt, val, patch) ==
    LET fs == Get(b.zone, "fluidsettings", Dict(<<>>))
        inrange == patch.t = "int" => (0 <= patch.i /\ patch.i < Len(patches(b)))
        name == IF patch.t = "str" THEN patch.s
                ELSE IF inrange THEN patches(b)[patch.i + 1] ELSE <<>>
        found == inrange /\ HasKey(BankPatches(b), name)
        p == _resolve_patch(b, patch)
        b1 == [b EXCEPT !.zone.fluidsettings = Dict(DictSet(fs.v, opt, val))]
    IN  IF ~StartsWithSynth(opt) \/ patch = NoPatch \/ fs.t # "dict" THEN b
        ELSE IF found /\ p.fluidsettings.t = "dict" /\ HasKey(p.fluidsettings.v, opt)
        THEN [b1 EXCEPT !.patches =
                 DictSet(@, name, [p EXCEPT !.fluidsettings = Dict(DictDel(@.v, opt))])]
        ELSE b1
\* for opt, val in pairs: self.fluidsetting_set(opt, val, patch)
RECURSIVE fluidsettings_set_bank(_, _, _)
fluidsettings_set_bank(b, pairs, patch) ==
    IF pairs = <<>> THEN b
    ELSE fluidsettings_set_bank(
             fluidsetting_set_bank(b, Head(pairs).k, Head(pairs).val, patch),
             Tail(pairs), patch)

\* p := self.bank.get(ch) or patch.get(ch)
ChanPreset(bankzone, patch, ch) ==
    IF bankzone.ch[ch] # None THEN bankzone.ch[ch] ELSE patch.ch[ch]

\* f"Unable to select preset {p} on channel {ch}"
Warning(p, ch) == [p |-> p, ch |-> ch]

\* the presets loop, lines 226-230: the channels whose selection fails
FailedChannels(s, bankzone, patch) ==
    SelectSeq([c \in Channels |-> c],
              LAMBDA ch : /\ ChanPreset(bankzone, patch, ch) # None
                          /\ ~program_select_ok(s, ChanPreset(bankzone, patch, ch)))
PresetCall(bankzone, patch, ch) ==
    IF ChanPreset(bankzone, patch, ch) # None
    THEN <<"program_select", ToString(ch)>> \o PresetStr(ChanPreset(bankzone, patch, ch))
    ELSE <<"program_unset", ToString(ch)>>
\* the loop up to and including channel upto: [s, warnings]
PresetsUpTo(s, bankzone, patch, upto) ==
    LET failed == SelectSeq(FailedChannels(s, bankzone, patch), LAMBDA ch : ch <= upto)
    IN  [s |-> [s EXCEPT
                  !.log = @ \o [ch \in 1..upto |-> PresetCall(bankzone, patch, ch)],
                  !.chan = [ch \in Channels |->
                               IF ch > upto \/ ch \in SeqToSet(failed) THEN @[ch]
                               ELSE ChanPreset(bankzone, patch, ch)]],
         warnings |-> [i \in 1..Len(failed) |->
                          Warning(ChanPreset(bankzone, patch, failed[i]), failed[i])]]
\* for ch in range(1, self.max_channels + 1)
AbortingApplyPresets(s, bankzone, patch) ==
    IF FailedChannels(s, bankzone, patch) = <<>>
    THEN PresetsUpTo(s, bankzone, patch, MaxChannels)
    ELSE PresetsUpTo(s, bankzone, patch, Head(FailedChannels(s, bankzone, patch)))
ApplyPresets(s, bankzone, patch) == PresetsUpTo(s, bankzone, patch, MaxChannels)

ApplySysex(s, bankzone, patch) == send_sysex(s, Iter(mrg(bankzone, patch, "sysex")))
ApplySettings(s, bankzone, patch) ==
    fluidsetting_set(s, mrg(bankzone, patch, "fluidsettings").v)
\* the bank in memory after the fluidsettings loop of apply_patch, which calls
\* fluidsetting_set(opt, val) without a patch
WithPatchApplySettingsBank(b, patch) ==
    fluidsettings_set_bank(b, mrg(b.zone, _resolve_patch(b, patch), "fluidsettings").v, patch)
ApplySettingsBank(b, patch) ==
    fluidsettings_set_bank(b, mrg(b.zone, _resolve_patch(b, patch), "fluidsettings").v, NoPatch)
ApplyPlayers(s, bankzone, patch) ==
    LET seqs == mrg(bankzone, patch, "sequencers")
        arps == mrg(bankzone, patch, "arpeggiators")
        mids == mrg(bankzone, patch, "midiplayers")
        s1 == players_clear(s, Iter(seqs) \o Iter(arps) \o Iter(mids))
        s2 == player_add(s1, "sequencer_add", seqs.v)
        s3 == player_add(s2, "arpeggiator_add", arps.v)
    IN  player_add(s3, "midiplayer_add", PathValues(mids.v))
\* self.patchcord
patchcord == <<KV("patchcordxxx", [dir |-> "/plugins", name |-> "patchcord"])>>
ApplyFx(s, bankzone, patch) ==
    LET fx == mrg(bankzone, patch, "ladspafx")
        s1 == fxchain_clear(s, Iter(fx))
        s2 == fxchain_add(s1, PathValues(DictOr(fx.v, patchcord)))
    IN  fxchain_connect(s2)

\* list.index(x): the 1-based position of the first x
Index(items, x) == CHOOSE i \in 1..Len(items) : items[i] = x /\ \A j \in 1..(i - 1) : items[j] # x
\* the rules apply_patch installs, in installation order
AfterClearRulesToInstall(merged) ==
    LET rules == Reverse(merged)
    IN  IF "clear" \in SeqToSet(rules)
        THEN SubSeq(rules, Index(rules, "clear") + 1, Len(rules))
        ELSE rules
UnreversedRulesToInstall(merged) ==
    IF "clear" \in SeqToSet(merged)
    THEN SubSeq(merged, 1, Index(merged, "clear") - 1)
    ELSE merged
RulesToInstall(merged) ==
    LET rules == Reverse(merged)
    IN  IF "clear" \in SeqToSet(rules)
        THEN SubSeq(rules, 1, Index(rules, "clear") - 1)
        ELSE rules
NoResetApplyRouter(s, bankzone, patch) ==
    LET merged == Iter(mrg(bankzone, patch, "router_rules"))
        s2 == IF "clear" \in SeqToSet(merged) THEN router_clear(s) ELSE s
    IN  router_addrule(s2, RulesToInstall(merged))
ApplyRouter(s, bankzone, patch) ==
    LET merged == Iter(mrg(bankzone, patch, "router_rules"))
        s1 == router_default(s)
        s2 == IF "clear" \in SeqToSet(merged) THEN router_clear(s1) ELSE s1
    IN  router_addrule(s2, RulesToInstall(merged))
ApplyMessages(s, bankzone, patch) == send_event(s, Iter(mrg(bankzone, patch, "messages")))

\* FluidPatcher.apply_patch on the resolved patch: [s, warnings]
MessagesFirstApplyResolved(s, bankzone, patch) ==
    LET a == ApplyPresets(s, bankzone, patch)
        s2 == ApplyMessages(a.s, bankzone, patch)
        s3 == ApplySysex(s2, bankzone, patch)
        s4 == ApplySettings(s3, bankzone, patch)
        s5 == ApplyPlayers(s4, bankzone, patch)
        s6 == ApplyFx(s5, bankzone, patch)
        s7 == ApplyRouter(s6, bankzone, patch)
    IN  [s |-> s7, warnings |-> a.warnings]
ApplyResolved(s, bankzone, patch) ==
    LET a == ApplyPresets(s, bankzone, patch)
        s2 == ApplySysex(a.s, bankzone, patch)
        s3 == ApplySettings(s2, bankzone, patch)
        s4 == ApplyPlayers(s3, bankzone, patch)
        s5 == ApplyFx(s4, bankzone, patch)
        s6 == ApplyRouter(s5, bankzone, patch)
        s7 == ApplyMessages(s6, bankzone, patch)
    IN  [s |-> s7, warnings |-> a.warnings]
apply_patch(s, b, patch) == ApplyResolved(s, b.zone, _resolve_patch(b, patch))

\* ------------------------------------------ soundfonts and synth reset
\* the zones of the bank: self.bank, *self.bank.get('patches', {}).values()
Zones(b) == <<b.zone>> \o [i \in 1..Len(BankPatches(b)) |-> BankPatches(b)[i].val]
\* sfneeded of _refresh_bankfonts
SfNeeded(b) ==
    UNION {{Zones(b)[i].ch[c].sfont : c \in {c \in Channels : Zones(b)[i].ch[c] # None}}
           : i \in 1..Len(Zones(b))}
\* a set in the order a for loop visits it
RECURSIVE SetToSeq(_)
SetToSeq(S) ==
    IF S = {} THEN <<>>
    ELSE LET x == CHOOSE x \in S : TRUE IN <<x>> \o SetToSeq(S \ {x})

\* FluidPatcher._refresh_bankfonts: [s, soundfonts]
KeepMissing_refresh_bankfonts(s, b, resident, files) ==
    LET sfneeded == SfNeeded(b)
        s1 == unload_soundfont(s, SetToSeq(resident \ sfneeded))
        s2 == load_soundfont(s1, files, SetToSeq(sfneeded \ resident))
    IN  [s |-> s2, soundfonts |-> sfneeded]
_refresh_bankfonts(s, b, resident, files) ==
    LET sfneeded == SfNeeded(b)
        s1 == unload_soundfont(s, SetToSeq(resident \ sfneeded))
        s2 == load_soundfont(s1, files, SetToSeq(sfneeded \ resident))
        missing == {sfont \in sfneeded \ resident : ~load_soundfont_ok(files, sfont)}
    IN  [s |-> s2, soundfonts |-> sfneeded \ missing]

_SYNTH_DEFAULTS ==
    <<KV("synth.chorus.active", "1"), KV("synth.reverb.active", "1"),
      KV("synth.chorus.depth", "8.0"), KV("synth.chorus.level", "2.0"),
      KV("synth.chorus.nr", "3"), KV("synth.chorus.speed", "0.3"),
      KV("synth.reverb.damp", "0.0"), KV("synth.reverb.level", "0.9"),
      KV("synth.reverb.room-size", "0.2"), KV("synth.reverb.width", "0.5"),
      KV("synth.gain", "0.2")>>
\* FluidPatcher._reset_synth
_reset_synth(s, config) ==
    LET s1 == players_clear(s, <<>>)
        s2 == fxchain_clear(s1, <<>>)
        s3 == router_default(s2)
        s4 == reset(s3)
    IN  fluidsetting_set(s4, DictOr(_SYNTH_DEFAULTS, config.fluidsettings))

\* ---------------------------------------------------------- the state
VARIABLES
    bank,        \* self.bank
    soundfonts,  \* self.soundfonts, the residency set
    cfg,         \* self.cfg: currentbank and fluidsettings
    fsynth,      \* self.fsynth, the facade's state
    disk,        \* the bank files under bankdir
    sffiles,     \* the soundfont files under sfdir that load
    last         \* the last call: its name, arguments and outcome
vars == <<bank, soundfonts, cfg, fsynth, disk, sffiles, last>>

\* the fields of the FluidPatcher object as one value
Self == [bank |-> bank, soundfonts |-> soundfonts, cfg |-> cfg, fsynth |-> fsynth]
ClearLog(s) == [s EXCEPT !.log = <<>>]

\* ---------------------------------------------------------- load_bank
\* a document text: given is FALSE for '', ok says whether parseyaml accepts it
NoRaw == [given |-> FALSE, ok |-> FALSE, bank |-> EmptyBank]
Malformed == [given |-> TRUE, ok |-> FALSE, bank |-> EmptyBank]
Text(b) == [given |-> TRUE, ok |-> TRUE, bank |-> b]
\* a file that does not exist: read_text raises
NoFile == NoRaw

PrefixField(value, dir) ==
    IF value.t # "dict" THEN value
    ELSE Dict([i \in 1..Len(value.v) |->
                  KV(value.v[i].k, PathJoin(dir, value.v[i].val))])
PrefixZone(zone) ==
    [zone EXCEPT !.midiplayers = PrefixField(@, "/mfiles"),
                 !.ladspafx = PrefixField(@, "/plugins")]
\* lines 173-177 of load_bank
PrefixBank(b) ==
    [b EXCEPT !.zone = PrefixZone(@),
              !.patches = [i \in 1..Len(@) |-> KV(@[i].k, PrefixZone(@[i].val))]]

\* lines 178-183 of load_bank: the init element
ApplyInit(s, b) ==
    LET s1 == send_sysex(s, Get(b.init, "sysex", List(<<>>)).v)
        s2 == fluidsetting_set(s1, Get(b.init, "fluidsettings", Dict(<<>>)).v)
    IN  send_event(s2, Get(b.init, "messages", List(<<>>)).v)

Outcome(self, raised) == [self |-> self, raised |-> raised]

\* FluidPatcher.load_bank(bankfile, raw)
load_bank(self, files, sfs, bankfile, raw) ==
    LET text == IF bankfile # "" THEN files[bankfile] ELSE raw
        loaded == [self EXCEPT
                      !.bank = IF text.given THEN text.bank ELSE @,
                      !.cfg = IF bankfile # ""
                              THEN [@ EXCEPT !.hascurrent = TRUE, !.currentbank = bankfile]
                              ELSE @]
        s1 == _reset_synth(ClearLog(self.fsynth), loaded.cfg)
        r == _refresh_bankfonts(s1, loaded.bank, self.soundfonts, sfs)
        b2 == PrefixBank(loaded.bank)
    IN  IF bankfile # "" /\ ~text.ok
        THEN IF ~self.cfg.hascurrent THEN Outcome(self, "KeyError")
             ELSE IF self.cfg.currentbank = bankfile
             THEN Outcome([self EXCEPT !.cfg.hascurrent = FALSE, !.cfg.currentbank = ""],
                          "ParseError")
             ELSE Outcome(self, "ParseError")
        ELSE IF bankfile = "" /\ raw.given /\ ~raw.ok
        THEN Outcome(self, "ParseError")
        ELSE Outcome([loaded EXCEPT !.bank = b2, !.soundfonts = r.soundfonts,
                                    !.fsynth = ApplyInit(r.s, b2)], "")

\* FluidPatcher.save_bank(bankfile, raw): [self, files, raised]
WriteFirst_save_bank(self, files, bankfile, raw) ==
    IF raw.given /\ ~raw.ok
    THEN [self |-> self, files |-> [files EXCEPT ![bankfile] = raw],
          raised |-> "ParseError"]
    ELSE [self |-> [self EXCEPT !.bank = IF raw.given THEN raw.bank ELSE @,
                                !.cfg.hascurrent = TRUE, !.cfg.currentbank = bankfile],
          files |-> [files EXCEPT ![bankfile] =
                        IF raw.given THEN raw ELSE Text(self.bank)],
          raised |-> ""]
save_bank(self, files, bankfile, raw) ==
    IF raw.given /\ ~raw.ok
    THEN [self |-> self, files |-> files, raised |-> "ParseError"]
    ELSE [self |-> [self EXCEPT !.bank = IF raw.given THEN raw.bank ELSE @,
                                !.cfg.hascurrent = TRUE, !.cfg.currentbank = bankfile],
          files |-> [files EXCEPT ![bankfile] =
                        IF raw.given THEN raw ELSE Text(self.bank)],
          raised |-> ""]

\* ------------------------------------------------------ patch editing
\* no argument given (addlike=None)
NoRef == [t |-> "none", i |-> 0, s |-> <<>>]
\* the truth value of an argument: None, 0 and '' are false
Truthy(ref) ==
    CASE ref.t = "none" -> FALSE
      [] ref.t = "int" -> ref.i # 0
      [] OTHER -> ref.s # <<>>

\* list.index(name) as Python counts, from 0
PatchIndex(b, name) == Index(patches(b), name) - 1

\* FluidPatcher.add_patch(name, addlike): [self, raised, index]
add_patch(self, name, addlike) ==
    LET b1 == [self.bank EXCEPT !.haspatches = TRUE,
                                !.patches = DictSet(BankPatches(self.bank), name, EmptyZone)]
        like == _resolve_patch(b1, addlike)
        b2 == IF Truthy(addlike)
              THEN [b1 EXCEPT !.patches = DictSet(@, name, [like EXCEPT !.ch = NoChannels])]
              ELSE b1
    IN  [self |-> [self EXCEPT !.bank = b2], raised |-> "", index |-> PatchIndex(b2, name)]

\* FluidPatcher.delete_patch(patch): [self, raised]
delete_patch(self, sfs, patch) ==
    LET n == Len(patches(self.bank))
        inrange == 0 - n <= patch.i /\ patch.i < n
        name == IF patch.t = "int"
                THEN patches(self.bank)[IF patch.i < 0 THEN n + patch.i + 1 ELSE patch.i + 1]
                ELSE patch.s
        b1 == [self.bank EXCEPT !.patches = DictDel(@, name)]
        r == _refresh_bankfonts(ClearLog(self.fsynth), b1, self.soundfonts, sfs)
    IN  IF patch.t = "int" /\ ~inrange THEN Outcome(self, "IndexError")
        ELSE IF ~HasKey(BankPatches(self.bank), name) THEN Outcome(self, "KeyError")
        ELSE Outcome([self EXCEPT !.bank = b1, !.soundfonts = r.soundfonts,
                                  !.fsynth = r.s], "")

\* FluidPatcher.add_router_rule(**pars)
add_router_rule(s, rule) == router_addrule(s, <<rule>>)

\* FluidPatcher.solo_soundfont(soundfont): [self, raised]
SoloTypes == <<"note", "cc", "pbend", "cpress", "kpress">>
solo_soundfont(self, sfs, soundfont) ==
    LET s1 == unload_soundfont(ClearLog(self.fsynth), SetToSeq(self.soundfonts \ {soundfont}))
        s2 == IF soundfont \in self.soundfonts THEN s1
              ELSE load_soundfont(s1, sfs, <<soundfont>>)
        s3 == _reset_synth(s2, self.cfg)
        s4 == [s3 EXCEPT !.log = @ \o [ch \in Channels |-> <<"program_unset", ToString(ch)>>],
                         !.chan = NoChannels]
        s5 == router_addrule(s4, [i \in 1..Len(SoloTypes) |-> SoloTypes[i] \o ":2-N=1"])
        s6 == Call(s5, "get_sfpresets", <<soundfont>>)
    IN  IF soundfont \notin self.soundfonts /\ ~load_soundfont_ok(sfs, soundfont)
        THEN Outcome([self EXCEPT !.soundfonts = {}, !.fsynth = s2], "")
        ELSE Outcome([self EXCEPT !.soundfonts = {soundfont}, !.fsynth = s6], "")

\* ----------------------------------------------------- signal handler
DigitValue(c) ==
    CASE c = "0" -> 0 [] c = "1" -> 1 [] c = "2" -> 2 [] c = "3" -> 3 [] c = "4" -> 4
      [] c = "5" -> 5 [] c = "6" -> 6 [] c = "7" -> 7 [] c = "8" -> 8 [] c = "9" -> 9
      [] OTHER -> 0 - 1
IsDigits(chars) == chars # <<>> /\ \A i \in 1..Len(chars) : DigitValue(chars[i]) >= 0
RECURSIVE ParseDigits(_, _)
ParseDigits(chars, acc) ==
    IF chars = <<>> THEN acc
    ELSE ParseDigits(Tail(chars), 10 * acc + DigitValue(Head(chars)))
\* int(str): an optional sign, then digits; [ok, n]
int(chars) ==
    LET signed == chars # <<>> /\ Head(chars) \in {"+", "-"}
        digits == IF signed THEN Tail(chars) ELSE chars
        n == ParseDigits(digits, 0)
    IN  IF ~IsDigits(digits) THEN [ok |-> FALSE, n |-> 0]
        ELSE [ok |-> TRUE, n |-> IF signed /\ Head(chars) = "-" THEN 0 - n ELSE n]

\* a signal: patch is a str or, once rewritten, an int
Signal(haspatch, patch, val) == [haspatch |-> haspatch, patch |-> patch, val |-> val]
select == <<"s", "e", "l", "e", "c", "t">>
Last(chars) == chars[Len(chars)]
Front(chars) == SubSeq(chars, 1, Len(chars) - 1)

\* FluidPatcher._midisignal_handler(sig): [raised, delivered]
PrefixSign_midisignal_handler(b, sig) ==
    LET names == patches(b)
        deliver(x) == [raised |-> "", delivered |-> <<x>>]
        raise(e) == [raised |-> e, delivered |-> <<>>]
    IN  IF ~sig.haspatch THEN deliver(sig)
        ELSE IF sig.patch.s \in SeqToSet(names)
        THEN deliver([sig EXCEPT !.patch = IntRef(PatchIndex(b, sig.patch.s))])
        ELSE IF sig.patch.s = select
        THEN IF Len(names) = 0 THEN raise("ZeroDivisionError")
             ELSE deliver([sig EXCEPT !.patch = IntRef(sig.val % Len(names))])
        ELSE IF sig.patch.s = <<>> THEN raise("IndexError")
        ELSE IF Head(sig.patch.s) \in {"+", "-"}
        THEN IF ~int(sig.patch.s).ok THEN raise("ValueError")
             ELSE deliver([sig EXCEPT !.val = int(sig.patch.s).n,
                                      !.patch = IntRef(0 - 1)])
        ELSE deliver([sig EXCEPT !.patch = IntRef(0 - 1), !.val = 0])
_midisignal_handler(b, sig) ==
    LET names == patches(b)
        deliver(x) == [raised |-> "", delivered |-> <<x>>]
        raise(e) == [raised |-> e, delivered |-> <<>>]
    IN  IF ~sig.haspatch THEN deliver(sig)
        ELSE IF sig.patch.s \in SeqToSet(names)
        THEN deliver([sig EXCEPT !.patch = IntRef(PatchIndex(b, sig.patch.s))])
        ELSE IF sig.patch.s = select
        THEN IF Len(names) = 0 THEN raise("ZeroDivisionError")
             ELSE deliver([sig EXCEPT !.patch = IntRef(sig.val % Len(names))])
        ELSE IF sig.patch.s = <<>> THEN raise("IndexError")
        ELSE IF Last(sig.patch.s) \in {"+", "-"}
        THEN IF ~int(<<Last(sig.patch.s)>> \o Front(sig.patch.s)).ok
             THEN raise("ValueError")
             ELSE deliver([sig EXCEPT
                              !.val = int(<<Last(sig.patch.s)>> \o Front(sig.patch.s)).n,
                              !.patch = IntRef(0 - 1)])
        ELSE deliver([sig EXCEPT !.patch = IntRef(0 - 1), !.val = 0])

\* -------------------------------------------------- documents and inputs
A0 == SFPreset("a.sf2", 0, 0)
A1 == SFPreset("a.sf2", 0, 1)
B0 == SFPreset("b.sf2", 0, 0)
\* a preset b.sf2 does not hold
B1 == SFPreset("b.sf2", 0, 1)
Ch(p1, p2) == [c \in Channels |-> IF c = 1 THEN p1 ELSE IF c = 2 THEN p2 ELSE None]

OptionNames == <<"synth.gain", "midi.autoconnect", "synth.reverb.level">>
KeyName(field, i) ==
    IF field = "fluidsettings" THEN OptionNames[i] ELSE field \o ToString(i)
Value(field, owner, i) ==
    IF field \in {"midiplayers", "ladspafx"}
    THEN [dir |-> "", name |-> owner \o ToString(i)]
    ELSE owner \o ToString(i)
\* a mapping of a document: the keys numbered idxs, with owner's values
MkDict(field, owner, idxs) ==
    Dict([i \in 1..Len(idxs) |-> KV(KeyName(field, idxs[i]), Value(field, owner, idxs[i]))])
MkList(field, idxs) == List([i \in 1..Len(idxs) |-> field \o ToString(idxs[i])])
\* a zone whose mapping fields hold the keys maps (or are absent) and whose
\* sysex and messages hold the items seqs (or are absent)
MkZone(ch, owner, maps, seqs, rules) ==
    [ch |-> ch,
     fluidsettings |-> IF maps = <<>> THEN Absent ELSE MkDict("fluidsettings", owner, maps),
     sequencers |-> IF maps = <<>> THEN Absent ELSE MkDict("sequencers", owner, maps),
     arpeggiators |-> IF maps = <<>> THEN Absent ELSE MkDict("arpeggiators", owner, maps),
     midiplayers |-> IF maps = <<>> THEN Absent ELSE MkDict("midiplayers", owner, maps),
     ladspafx |-> IF maps = <<>> THEN Absent ELSE MkDict("ladspafx", owner, maps),
     sysex |-> IF seqs = <<>> THEN Absent ELSE MkList("sysex", seqs),
     messages |-> IF seqs = <<>> THEN Absent ELSE MkList("messages", seqs),
     router_rules |-> rules]

BankZone1 == MkZone(Ch(A0, None), "bank", <<1, 2>>, <<1, 2>>, List(<<"A", "B">>))
BankZone2 == MkZone(Ch(None, B1), "bank", <<>>, <<1, 2>>, List(<<"A", "clear", "B">>))
BankZone3 == MkZone(Ch(B0, A0), "bank", <<1, 2>>, <<>>, Absent)
BankZones == {EmptyZone, BankZone1, BankZone2, BankZone3}
PatchZone1 == MkZone(Ch(B0, None), "patch", <<2, 3>>, <<2, 3>>, List(<<"C", "D">>))
PatchZone2 == MkZone(Ch(A1, B0), "patch", <<>>, <<2, 3>>, List(<<"clear", "C", "D">>))
PatchZone3 == MkZone(Ch(B1, A0), "patch", <<3, 2>>, <<>>, List(<<"C", "clear", "D", "C">>))
PatchZones == {EmptyZone, PatchZone1, PatchZone2, PatchZone3}

InitZone == MkZone(NoChannels, "init", <<1, 2>>, <<1>>, Absent)
\* patch names, as the characters of a str
Names == {<<"a">>, <<"b">>, <<"c">>}
MkDoc(zone, pairs) ==
    [zone |-> zone, haspatches |-> TRUE, patches |-> pairs, init |-> InitZone]
\* every bank zone with every patch zone as patch a, and another as patch b
PatchPairs ==
    {<<EmptyZone, PatchZone1>>, <<PatchZone1, PatchZone2>>, <<PatchZone2, PatchZone3>>,
     <<PatchZone3, EmptyZone>>}
WideDocs ==
    {MkDoc(z, <<KV(<<"a">>, pq[1]), KV(<<"b">>, pq[2])>>) : z \in BankZones, pq \in PatchPairs}
Doc1 == MkDoc(BankZone1, <<KV(<<"a">>, PatchZone1), KV(<<"b">>, PatchZone2)>>)
Doc2 == MkDoc(EmptyZone, <<KV(<<"b">>, PatchZone3)>>)
Doc3 == MkDoc(BankZone3, <<>>)

BankFiles == {"one.yaml", "two.yaml", "bad.yaml", "new.yaml"}
SaveTargets == {"new.yaml"}
Disk0 ==
    [f \in BankFiles |->
        CASE f = "one.yaml" -> Text(Doc1)
          [] f = "two.yaml" -> Text(Doc2)
          [] f = "bad.yaml" -> Malformed
          [] OTHER -> NoFile]
RawInputs == {NoRaw, Malformed, Text(Doc3)}
Refs ==
    {IntRef(i) : i \in (0 - 1)..MaxPatches} \cup {StrRef(n) : n \in Names \cup {<<"z">>}}
\* the addlike arguments of add_patch
AddLikes ==
    {NoRef} \cup {IntRef(i) : i \in 0..(MaxPatches - 1)}
        \cup {StrRef(n) : n \in {<<"a">>, <<"z">>}}
PatchValues ==
    {<<"a">>, <<"b">>, select, <<"+", "1">>, <<"1", "+">>, <<"2", "-">>, <<"-", "1">>, <<"x">>,
     <<>>, <<"+">>, <<"-">>, <<"x", "+">>}
Signals ==
    {Signal(TRUE, StrRef(v), n) : v \in PatchValues, n \in {0 - 3, 0, 5}}
        \cup {Signal(FALSE, StrRef(<<>>), 7)}

\* the configuration file read at construction
CfgSettings == <<KV("synth.gain", "0.6")>>
Synth0 ==
    [sfloaded |-> {}, chan |-> NoChannels, players |-> <<>>, fxchain |-> <<>>,
     connected |-> FALSE, router |-> <<"default">>, settings |-> CfgSettings,
     log |-> <<>>]

\* ------------------------------------------------------------- actions
Last0 ==
    [op |-> "init", patch |-> NoRef, name |-> <<>>, bankfile |-> "", soundfont |-> "",
     rawgiven |-> FALSE,
     rawok |-> FALSE,
     raised |-> "", warnings |-> <<>>, index |-> 0 - 1, sig |-> Signal(FALSE, NoRef, 0),
     delivered |-> <<>>, step |-> 0, before |-> Synth0, branch |-> "", lists |-> <<>>]

Cfg0 == [hascurrent |-> FALSE, currentbank |-> "", fluidsettings |-> CfgSettings]
\* the configurations the config file may hold: currentbank absent or naming a file
Cfgs == {Cfg0} \cup {[Cfg0 EXCEPT !.hascurrent = TRUE, !.currentbank = f] : f \in BankFiles}

\* FluidPatcher.__init__, given the config and the soundfont files that load
Construct(config, files) ==
    /\ bank = EmptyBank
    /\ soundfonts = {}
    /\ cfg = config
    /\ fsynth = Synth0
    /\ disk = Disk0
    /\ sffiles = files
    /\ last = Last0
Init == \E config \in Cfgs, files \in SUBSET SoundFonts : Construct(config, files)

SetSelf(self) ==
    /\ bank' = self.bank
    /\ soundfonts' = self.soundfonts
    /\ cfg' = self.cfg
    /\ fsynth' = self.fsynth

LoadBank ==
    \E bankfile \in BankFiles \cup {""}, raw \in RawInputs :
        /\ bankfile # "" => raw = NoRaw
        /\ LET r == load_bank(Self, disk, sffiles, bankfile, raw)
           IN  /\ SetSelf(r.self)
               /\ last' = [Last0 EXCEPT !.op = "load_bank", !.bankfile = bankfile,
                                        !.rawgiven = raw.given, !.rawok = raw.ok,
                                        !.raised = r.raised]
        /\ UNCHANGED <<disk, sffiles>>

SaveBank ==
    \E bankfile \in SaveTargets, raw \in RawInputs :
        LET r == save_bank(Self, disk, bankfile, raw)
        IN  /\ SetSelf(r.self)
            /\ disk' = r.files
            /\ last' = [Last0 EXCEPT !.op = "save_bank", !.bankfile = bankfile,
                                     !.rawgiven = raw.given, !.rawok = raw.ok,
                                     !.raised = r.raised]
            /\ UNCHANGED sffiles

ApplyPatch ==
    \E patch \in Refs :
        LET r == apply_patch(ClearLog(fsynth), bank, patch)
        IN  /\ fsynth' = r.s
            /\ bank' = ApplySettingsBank(bank, patch)
            /\ last' = [Last0 EXCEPT !.op = "apply_patch", !.patch = patch,
                                     !.warnings = r.warnings]
            /\ UNCHANGED <<soundfonts, cfg, disk, sffiles>>

AddPatch ==
    \E name \in Names, addlike \in AddLikes :
        /\ name \in SeqToSet(patches(bank)) \/ Len(patches(bank)) < MaxPatches
        /\ LET r == add_patch(Self, name, addlike)
           IN  /\ SetSelf(r.self)
               /\ last' = [Last0 EXCEPT !.op = "add_patch", !.name = name,
                                        !.patch = addlike, !.index = r.index]
        /\ UNCHANGED <<disk, sffiles>>

DeletePatch ==
    \E patch \in Refs :
        LET r == delete_patch(Self, sffiles, patch)
        IN  /\ SetSelf(r.self)
            /\ last' = [Last0 EXCEPT !.op = "delete_patch", !.patch = patch,
                                     !.raised = r.raised]
            /\ UNCHANGED <<disk, sffiles>>

ExtraRules(s) == Len(SelectSeq(s.router, LAMBDA rule : rule = "extra"))
AddRouterRule ==
    /\ ExtraRules(fsynth) < MaxExtraRules
    /\ fsynth' = add_router_rule(ClearLog(fsynth), "extra")
    /\ last' = [Last0 EXCEPT !.op = "add_router_rule"]
    /\ UNCHANGED <<bank, soundfonts, cfg, disk, sffiles>>

SoloSoundfont ==
    \E soundfont \in SoundFonts :
        LET r == solo_soundfont(Self, sffiles, soundfont)
        IN  /\ SetSelf(r.self)
            /\ last' = [Last0 EXCEPT !.op = "solo_soundfont", !.soundfont = soundfont]
            /\ UNCHANGED <<disk, sffiles>>

MidiSignal ==
    \E sig \in Signals :
        LET r == _midisignal_handler(bank, sig)
        IN  /\ last' = [Last0 EXCEPT !.op = "midisignal", !.sig = sig,
                                     !.raised = r.raised, !.delivered = r.delivered]
            /\ UNCHANGED <<bank, soundfonts, cfg, fsynth, disk, sffiles>>

Next ==
    \/ LoadBank
    \/ SaveBank
    \/ ApplyPatch
    \/ AddPatch
    \/ DeletePatch
    \/ AddRouterRule
    \/ SoloSoundfont
    \/ MidiSignal
Spec == Init /\ [][Next]_vars

\* ---------------------------------------------- applying patches of a bank
\* the state after construction and load_bank(raw=doc)
Loaded(config, files, doc) ==
    LET self0 == [bank |-> EmptyBank, soundfonts |-> {}, cfg |-> config, fsynth |-> Synth0]
        r == load_bank(self0, Disk0, files, "", Text(doc))
    IN  /\ bank = r.self.bank
        /\ soundfonts = r.self.soundfonts
        /\ cfg = r.self.cfg
        /\ fsynth = r.self.fsynth
        /\ disk = Disk0
        /\ sffiles = files
        /\ last = [Last0 EXCEPT !.op = "load_bank", !.rawgiven = TRUE, !.rawok = TRUE]
InitApply == \E doc \in WideDocs, files \in SUBSET SoundFonts : Loaded(Cfg0, files, doc)
NextApply ==
    \/ ApplyPatch
    \/ AddRouterRule
SpecApply == InitApply /\ [][NextApply]_vars

\* ------------------------------------------- editing the bank's patches
\* load_bank, add_patch and delete_patch with every soundfont file loading
InitResidency == Construct(Cfg0, SoundFonts)
NextResidency ==
    \/ LoadBank
    \/ AddPatch
    \/ DeletePatch
SpecResidency == InitResidency /\ [][NextResidency]_vars

\* --------------------------------------------- loading and saving banks
InitFiles == \E config \in Cfgs : Construct(config, SoundFonts)
NextFiles ==
    \/ LoadBank
    \/ SaveBank
    \/ DeletePatch
SpecFiles == InitFiles /\ [][NextFiles]_vars

\* ------------------------------------------------ signals from the router
\* banks that differ in their patch names only
SignalDocs ==
    {MkDoc(EmptyZone, pairs) :
        pairs \in {<<>>, <<KV(<<"a">>, EmptyZone)>>,
                   <<KV(<<"b">>, EmptyZone), KV(<<"a">>, EmptyZone)>>,
                   <<KV(<<"a">>, EmptyZone), KV(<<"c">>, EmptyZone), KV(<<"b">>, EmptyZone)>>,
                   <<KV(<<"1", "+">>, EmptyZone), KV(select, EmptyZone)>>}}
InitSignal == \E doc \in SignalDocs : Loaded(Cfg0, SoundFonts, doc)
NextSignal ==
    \/ MidiSignal
    \/ DeletePatch
SpecSignal == InitSignal /\ [][NextSignal]_vars

\* ------------------------------------------------- auditioning a soundfont
\* solo_soundfont among load_bank and delete_patch, with soundfont files that
\* load and files that do not
InitSolo == \E files \in SUBSET SoundFonts : Construct(Cfg0, files)
NextSolo ==
    \/ LoadBank
    \/ SoloSoundfont
    \/ DeletePatch
SpecSolo == InitSolo /\ [][NextSolo]_vars

\* ------------------------------- signals during an apply_patch in flight
\* apply_patch runs on the control thread one step at a time (presets, sysex,
\* fluidsettings, players, effects, router, messages); the facade's thread may
\* call the signal handler between any two of them.
ApplySteps == 7
\* the synthesizer after step n of apply_patch
ApplyStep(s, bankzone, patch, n) ==
    CASE n = 1 -> ApplyPresets(s, bankzone, patch).s
      [] n = 2 -> ApplySysex(s, bankzone, patch)
      [] n = 3 -> ApplySettings(s, bankzone, patch)
      [] n = 4 -> ApplyPlayers(s, bankzone, patch)
      [] n = 5 -> ApplyFx(s, bankzone, patch)
      [] n = 6 -> ApplyRouter(s, bankzone, patch)
      [] OTHER -> ApplyMessages(s, bankzone, patch)
\* apply_patch entered: warnings = [], patch resolved
BeginApply ==
    \E patch \in Refs :
        /\ last.op # "applying"
        /\ fsynth' = ClearLog(fsynth)
        /\ last' = [Last0 EXCEPT !.op = "applying", !.patch = patch, !.before = fsynth]
        /\ UNCHANGED <<bank, soundfonts, cfg, disk, sffiles>>
\* the next step of the apply_patch in flight; the last one returns
StepApply ==
    /\ last.op = "applying"
    /\ fsynth' = ApplyStep(fsynth, bank.zone, _resolve_patch(bank, last.patch), last.step + 1)
    /\ last' = [last EXCEPT
                   !.step = @ + 1,
                   !.op = IF last.step + 1 = ApplySteps THEN "apply_patch" ELSE @,
                   !.warnings =
                       IF last.step = 0
                       THEN ApplyPresets(fsynth, bank.zone, _resolve_patch(bank, last.patch)).warnings
                       ELSE @]
    /\ UNCHANGED <<bank, soundfonts, cfg, disk, sffiles>>
\* the signals the router sends meanwhile
SignalsInFlight ==
    {Signal(TRUE, StrRef(v), 5) : v \in {<<"a">>, <<"b">>, select, <<"1", "+">>, <<"x">>}}
\* the handler, called on the facade's thread while apply_patch is in flight
FacadeTouchingSignalInFlight ==
    \E sig \in SignalsInFlight :
        LET r == _midisignal_handler(bank, sig)
        IN  /\ last.op = "applying"
            /\ last' = [last EXCEPT !.sig = sig, !.raised = r.raised, !.delivered = r.delivered]
            /\ fsynth' = router_default(fsynth)
            /\ UNCHANGED <<bank, soundfonts, cfg, disk, sffiles>>
SignalInFlight ==
    \E sig \in SignalsInFlight :
        LET r == _midisignal_handler(bank, sig)
        IN  /\ last.op = "applying"
            /\ last' = [last EXCEPT !.sig = sig, !.raised = r.raised, !.delivered = r.delivered]
            /\ UNCHANGED <<bank, soundfonts, cfg, fsynth, disk, sffiles>>
InitReentrant ==
    \E doc \in {Doc1, Doc2}, files \in {SoundFonts, {"a.sf2"}} : Loaded(Cfg0, files, doc)
NextReentrant ==
    \/ BeginApply
    \/ StepApply
    \/ SignalInFlight
SpecReentrant == InitReentrant /\ [][NextReentrant]_vars

\* ------------------------------ the signal handler beside the control thread
\* The facade calls the handler on its own thread.  Every evaluation of
\* self.patches builds the list from the bank as it is at that moment: the
\* first for `sig.patch in self.patches`, a second for
\* self.patches.index(sig.patch) or for len(self.patches).  The control thread
\* changes the patch list in one step (del self.bank['patches'][name],
\* self.bank['patches'][name] = {}, self.bank = bank).

\* the branch the handler takes on its first read of self.patches
HandlerBranch(b, sig) ==
    IF ~sig.haspatch THEN "done"
    ELSE IF sig.patch.s \in SeqToSet(patches(b)) THEN "index"
    ELSE IF sig.patch.s = select THEN "len"
    ELSE "done"
\* the rest of the handler, with its second read of self.patches: [raised, delivered]
HandlerFinish(b, sig, branch) ==
    IF branch = "index"
    THEN IF sig.patch.s \in SeqToSet(patches(b))
         THEN [raised |-> "",
               delivered |-> <<[sig EXCEPT !.patch = IntRef(PatchIndex(b, sig.patch.s))]>>]
         ELSE [raised |-> "ValueError", delivered |-> <<>>]
    ELSE IF Len(patches(b)) = 0
         THEN [raised |-> "ZeroDivisionError", delivered |-> <<>>]
         ELSE [raised |-> "",
               delivered |-> <<[sig EXCEPT !.patch = IntRef(sig.val % Len(patches(b)))]>>]
\* the signals the router sends
SignalsBeside ==
    {Signal(TRUE, StrRef(v), 5) : v \in {<<"a">>, <<"b">>, select, <<"x">>}}
\* the handler is called and reads self.patches for the first time
BeginHandler ==
    \E sig \in SignalsBeside :
        LET r == _midisignal_handler(bank, sig)
        IN  /\ last.op # "handling"
            /\ last' = IF HandlerBranch(bank, sig) = "done"
                        THEN [Last0 EXCEPT !.op = "midisignal", !.sig = sig,
                                           !.raised = r.raised, !.delivered = r.delivered,
                                           !.branch = "done", !.lists = <<patches(bank)>>]
                        ELSE [Last0 EXCEPT !.op = "handling", !.sig = sig,
                                           !.branch = HandlerBranch(bank, sig),
                                           !.lists = <<patches(bank)>>]
            /\ UNCHANGED <<bank, soundfonts, cfg, fsynth, disk, sffiles>>
\* the handler reads self.patches again and calls the callback, or raises
EndHandler ==
    LET r == HandlerFinish(bank, last.sig, last.branch)
    IN  /\ last.op = "handling"
        /\ last' = [last EXCEPT !.op = "midisignal", !.raised = r.raised,
                                 !.delivered = r.delivered]
        /\ UNCHANGED <<bank, soundfonts, cfg, fsynth, disk, sffiles>>
\* the handler is between its two reads and the control thread has not acted yet
BetweenReads == last.op = "handling" /\ Len(last.lists) = 1
\* delete_patch, add_patch, load_bank on the control thread meanwhile
DeleteBeside ==
    \E patch \in Refs :
        LET r == delete_patch(Self, sffiles, patch)
        IN  /\ BetweenReads
            /\ r.raised = ""
            /\ SetSelf(r.self)
            /\ last' = [last EXCEPT !.lists = Append(@, patches(r.self.bank))]
            /\ UNCHANGED <<disk, sffiles>>
AddBeside ==
    \E name \in Names, addlike \in {NoRef, IntRef(0)} :
        LET r == add_patch(Self, name, addlike)
        IN  /\ BetweenReads
            /\ name \in SeqToSet(patches(bank)) \/ Len(patches(bank)) < MaxPatches
            /\ SetSelf(r.self)
            /\ last' = [last EXCEPT !.lists = Append(@, patches(r.self.bank))]
            /\ UNCHANGED <<disk, sffiles>>
LoadBeside ==
    \E doc \in SignalDocs :
        LET r == load_bank(Self, disk, sffiles, "", Text(doc))
        IN  /\ BetweenReads
            /\ SetSelf(r.self)
            /\ last' = [last EXCEPT !.lists = Append(@, patches(r.self.bank))]
            /\ UNCHANGED <<disk, sffiles>>
NextBeside ==
    \/ BeginHandler
    \/ EndHandler
    \/ DeleteBeside
    \/ AddBeside
    \/ LoadBeside
SpecBeside == InitSignal /\ [][NextBeside]_vars

\* ------------------------------------------------------------ properties
Applied == last.op = "apply_patch"
\* the patch the last apply_patch resolved its argument to
Resolved == _resolve_patch(bank, last.patch)
\* the merged router_rules of the last apply_patch, in document order
MergedRules ==
    Get(bank.zone, "router_rules", List(<<>>)).v \o Get(Resolved, "router_rules", List(<<>>)).v
\* what the facade holds, without the record of the calls
SynthState(s) ==
    [sfloaded |-> s.sfloaded, chan |-> s.chan, players |-> s.players,
     fxchain |-> s.fxchain, connected |-> s.connected, router |-> s.router,
     settings |-> s.settings]

\* the router calls of an operation, in the order it issued them
RouterCalls(log) ==
    SelectSeq(log, LAMBDA c : c[1] \in {"router_default", "router_clear", "router_addrule"})
AddRuleCalls(rules) == [i \in 1..Len(rules) |-> <<"router_addrule", rules[i]>>]

\* C1: after any sequence of add_patch, delete_patch and load_bank the residency
\* set is exactly the set of soundfonts the bank document references.
C1_ResidencyConvergence == soundfonts = SfNeeded(bank)

\* the call the patch-first reading of a channel's entries asks for
C2_ExpectedCall(ch) ==
    LET p == IF Resolved.ch[ch] # None THEN Resolved.ch[ch] ELSE bank.zone.ch[ch]
    IN  IF p # None THEN <<"program_select", ToString(ch)>> \o PresetStr(p)
        ELSE <<"program_unset", ToString(ch)>>
\* C2: apply_patch selects, on every channel, the patch's preset entry if the
\* patch has one, else the bank's entry, and unsets a channel with neither.
C2_PatchPresetWins ==
    Applied => \A ch \in Channels : C2_ExpectedCall(ch) \in SeqToSet(fsynth.log)

\* C3 as stated: with 'clear' among the merged rules, apply_patch leaves on a
\* cleared router exactly the rules declared before the sentinel, the first
\* declared installed last.
C3_ClearKeepsEarlierRules ==
    (Applied /\ "clear" \in SeqToSet(MergedRules))
        => LET kept == Reverse(SubSeq(MergedRules, 1, Index(MergedRules, "clear") - 1))
           IN  /\ RouterCalls(fsynth.log) =
                     <<<<"router_default">>, <<"router_clear">>>> \o AddRuleCalls(kept)
               /\ fsynth.router = kept
\* the position of the last 'clear' among the merged rules
C3_LastClear ==
    CHOOSE i \in 1..Len(MergedRules) :
        MergedRules[i] = "clear" /\ \A j \in (i + 1)..Len(MergedRules) : MergedRules[j] # "clear"
\* C3 as amended: with 'clear' among the merged rules, apply_patch installs on a
\* cleared router (no default rule) exactly the rules declared after the last
\* sentinel, the first declared of them installed last.
C3_ClearKeepsLaterRules ==
    (Applied /\ "clear" \in SeqToSet(MergedRules))
        => LET kept == Reverse(SubSeq(MergedRules, C3_LastClear + 1, Len(MergedRules)))
           IN  /\ RouterCalls(fsynth.log) =
                     <<<<"router_default">>, <<"router_clear">>>> \o AddRuleCalls(kept)
               /\ fsynth.router = kept
               /\ "default" \notin SeqToSet(fsynth.router)
C3_Witness ==
    /\ Applied
    /\ MergedRules = <<"A", "B", "clear", "C", "D">>
    /\ RouterCalls(fsynth.log) =
          <<<<"router_default">>, <<"router_clear">>, <<"router_addrule", "D">>,
            <<"router_addrule", "C">>>>
    /\ fsynth.router = <<"D", "C">>

\* C4: with no 'clear' among the merged rules, apply_patch resets the router to
\* its default rule and then installs every merged rule once, in the reverse of
\* document order.
C4_ReverseOrderInstall ==
    (Applied /\ "clear" \notin SeqToSet(MergedRules))
        => /\ RouterCalls(fsynth.log) =
                 <<<<"router_default">>>> \o
                 [i \in 1..Len(MergedRules) |->
                     <<"router_addrule", MergedRules[Len(MergedRules) + 1 - i]>>]
           /\ \A i, j \in 1..Len(MergedRules) :
                 i < j => \E m, n \in 1..Len(fsynth.log) :
                              /\ n < m
                              /\ fsynth.log[m] = <<"router_addrule", MergedRules[i]>>
                              /\ fsynth.log[n] = <<"router_addrule", MergedRules[j]>>
           /\ fsynth.router = <<"default">> \o Reverse(MergedRules)
C4_Witness ==
    /\ Applied
    /\ MergedRules = <<"A", "B", "C", "D">>
    /\ fsynth.router = <<"default", "D", "C", "B", "A">>

\* the preset calls of the last apply_patch, one per channel
C5_PresetCalls ==
    SelectSeq(fsynth.log, LAMBDA c : c[1] \in {"program_select", "program_unset"})
\* the entries of a channel at bank level and in the resolved patch
C5_Entries(ch) == {bank.zone.ch[ch], Resolved.ch[ch]} \ {None}
\* the entry apply_patch selected on a channel
C5_Selected(ch) ==
    {p \in C5_Entries(ch) :
        C5_PresetCalls[ch] = <<"program_select", ToString(ch)>> \o PresetStr(p)}
\* the channels whose selection the synthesizer refuses
C5_Failing ==
    {ch \in Channels : \E p \in C5_Selected(ch) :
        ~(p.sfont \in fsynth.sfloaded /\ p.prog \in SfProgs(p.sfont))}
\* C5: the warnings of apply_patch name exactly the channels whose selection
\* fails, once each and in ascending order; every other assigned channel holds
\* the preset selected on it, and every channel is processed whatever failed
\* before it.
C5_PerChannelIsolation ==
    Applied =>
        /\ Len(C5_PresetCalls) = MaxChannels
        /\ \A ch \in Channels :
              /\ C5_PresetCalls[ch][2] = ToString(ch)
              /\ C5_Entries(ch) # {} => Cardinality(C5_Selected(ch)) = 1
              /\ C5_Entries(ch) = {} => C5_PresetCalls[ch][1] = "program_unset"
        /\ Len(last.warnings) = Cardinality(C5_Failing)
        /\ \A i \in 1..Len(last.warnings) :
              /\ last.warnings[i].ch \in C5_Failing
              /\ last.warnings[i].p \in C5_Selected(last.warnings[i].ch)
              /\ \A j \in 1..(i - 1) : last.warnings[j].ch < last.warnings[i].ch
        /\ \A ch \in Channels \ C5_Failing :
              C5_Entries(ch) # {} => fsynth.chan[ch] \in C5_Selected(ch)
C5_Witness ==
    /\ Applied
    /\ Len(last.warnings) = 1
    /\ last.warnings[1].ch = 1
    /\ Resolved.ch[2] = A0
    /\ fsynth.chan[2] = A0

\* the argument of the last apply_patch names no patch of the bank
C6_Unresolved ==
    \/ last.patch.t = "int" /\ (last.patch.i < 0 \/ last.patch.i >= Len(bank.patches))
    \/ last.patch.t = "str" /\ \A i \in 1..Len(bank.patches) : bank.patches[i].k # last.patch.s
\* C6: apply_patch with an integer outside 0..len(patches)-1 (negative ones
\* included) or with a name that is no patch of the bank does not raise, and
\* issues the calls and returns the warnings of applying the empty patch {}.
C6_UnresolvedIsEmptyOverlay ==
    (Applied /\ C6_Unresolved) =>
        /\ last.raised = ""
        /\ fsynth.log = ApplyResolved(ClearLog(fsynth), bank.zone, EmptyZone).s.log
        /\ last.warnings = ApplyResolved(ClearLog(fsynth), bank.zone, EmptyZone).warnings
C6_Witness ==
    /\ Applied
    /\ last.patch = IntRef(0 - 1)
    /\ Len(bank.patches) = 2
    /\ bank.patches[2].val.ch[2] = A0
    /\ bank.zone.ch[2] = None
    /\ <<"program_unset", "2">> \in SeqToSet(fsynth.log)

\* the factor a sign character stands for
C7_Sign(c) == IF c = "-" THEN 0 - 1 ELSE 1
\* the last signal's patch value is no patch name and not 'select'
C7_NotAName ==
    /\ last.op = "midisignal"
    /\ last.sig.haspatch
    /\ last.sig.patch.s \notin SeqToSet(patches(bank))
    /\ last.sig.patch.s # select
    /\ Len(last.sig.patch.s) >= 2
C7_PrefixedStep ==
    /\ C7_NotAName
    /\ Head(last.sig.patch.s) \in {"+", "-"}
    /\ IsDigits(Tail(last.sig.patch.s))
C7_SuffixedStep ==
    /\ C7_NotAName
    /\ Last(last.sig.patch.s) \in {"+", "-"}
    /\ IsDigits(Front(last.sig.patch.s))
C7_Delivered(val) ==
    /\ last.raised = ""
    /\ last.delivered = <<[last.sig EXCEPT !.patch = IntRef(0 - 1), !.val = val]>>
\* C7 as stated: a sign-prefixed step that is no patch name ("+1", "-1") is
\* delivered with patch = -1 and val the signed integer.
C7_PrefixedStepIsSigned ==
    C7_PrefixedStep =>
        C7_Delivered(C7_Sign(Head(last.sig.patch.s)) * ParseDigits(Tail(last.sig.patch.s), 0))
\* C7 as amended: the step is recognised by a sign in LAST position ("1+",
\* "2-"): that signal is delivered with patch = -1 and val the signed integer;
\* a sign-prefixed value ("+1", "-1") is delivered with patch = -1 and val = 0.
C7_SuffixedStepIsSigned ==
    /\ C7_SuffixedStep =>
          C7_Delivered(C7_Sign(Last(last.sig.patch.s)) * ParseDigits(Front(last.sig.patch.s), 0))
    /\ C7_PrefixedStep => C7_Delivered(0)
C7_Witness ==
    /\ C7_PrefixedStep
    /\ last.sig.patch.s = <<"+", "1">>
    /\ last.sig.val = 5
    /\ last.delivered = <<Signal(TRUE, IntRef(0 - 1), 0)>>

\* apply_patch(p) once more, on the state the last apply_patch(p) left
C8_Again == apply_patch(ClearLog(fsynth), bank, last.patch)
\* C8: apply_patch(p) on the state an apply_patch(p) left gives the same
\* synthesizer state (presets, players, effect chain, router, settings) and
\* returns the same warnings.
C8_ApplyIdempotent ==
    Applied =>
        /\ SynthState(C8_Again.s) = SynthState(fsynth)
        /\ C8_Again.warnings = last.warnings
C8_Witness ==
    /\ Applied
    /\ fsynth.players # <<>>
    /\ Len(fsynth.router) > 1
    /\ fsynth.chan[2] # None
    /\ last.warnings # <<>>
    /\ SynthState(C8_Again.s) = SynthState(fsynth)

\* the step is a load_bank of a file, or a load_bank or save_bank of a raw
\* text, that the parser rejects
C9_RejectedLoadFile ==
    /\ last'.op = "load_bank"
    /\ last'.bankfile # ""
    /\ disk[last'.bankfile].given
    /\ ~disk[last'.bankfile].ok
C9_RejectedRaw ==
    /\ last'.op \in {"load_bank", "save_bank"}
    /\ last'.op = "load_bank" => last'.bankfile = ""
    /\ last'.rawgiven
    /\ ~last'.rawok
C9_Untouched ==
    /\ last'.raised # ""
    /\ bank' = bank
    /\ soundfonts' = soundfonts
    /\ fsynth' = fsynth
    /\ disk' = disk
C9_RejectionStep ==
    (C9_RejectedLoadFile \/ C9_RejectedRaw) => (C9_Untouched /\ cfg' = cfg)
\* C9 as stated: a load_bank or save_bank given a document the parser rejects
\* raises and leaves bank, residency set, configuration, synthesizer and files
\* as they were.
C9_RejectionLeavesAllUntouched == [][C9_RejectionStep]_vars
C9_AmendedStep ==
    /\ C9_RejectedRaw => (C9_Untouched /\ cfg' = cfg)
    /\ C9_RejectedLoadFile =>
          /\ C9_Untouched
          /\ cfg' = IF cfg.hascurrent /\ cfg.currentbank = last'.bankfile
                    THEN [cfg EXCEPT !.hascurrent = FALSE, !.currentbank = ""]
                    ELSE cfg
\* C9 as amended: the rejection raises and leaves bank, residency set,
\* synthesizer and files as they were; the configuration is as it was except
\* that load_bank of a rejected file removes currentbank when it names that file.
C9_RejectionDropsOnlyCurrentbank == [][C9_AmendedStep]_vars
C9_Witness ==
    /\ last.op = "load_bank"
    /\ last.bankfile = "bad.yaml"
    /\ last.raised = "ParseError"
    /\ ~cfg.hascurrent
    /\ bank # EmptyBank

\* a field's entries, none when the field is absent; the reference union
C10_Items(zone, kw) == IF zone[kw].t = "absent" THEN <<>> ELSE zone[kw].v
C10_Union(kw) ==
    {e \in SeqToSet(C10_Items(bank.zone, kw)) :
        \A f \in SeqToSet(C10_Items(Resolved, kw)) : f.k # e.k}
        \cup SeqToSet(C10_Items(Resolved, kw))
C10_Merged(kw) == mrg(bank.zone, Resolved, kw)
C10_AddCalls(kind) ==
    {<<c[2], c[3]>> : c \in {c \in SeqToSet(fsynth.log) : c[1] = kind}}
C10_SendCalls(kind) ==
    LET calls == SelectSeq(fsynth.log, LAMBDA c : c[1] = kind)
    IN  [i \in 1..Len(calls) |-> calls[i][2]]
\* C10: the merged value apply_patch uses for a mapping field is the union of
\* the bank's and the patch's entries, the patch's value on a key of both; for a
\* sequence field it is the bank's items followed by the patch's, duplicates
\* kept; an absent field counts as empty.
C10_MergeIsReference ==
    Applied =>
        /\ \A kw \in MapFields :
              /\ SeqToSet(C10_Merged(kw).v) = C10_Union(kw)
              /\ Len(C10_Merged(kw).v) = Cardinality(C10_Union(kw))
        /\ \A kw \in SeqFields :
              Iter(C10_Merged(kw)) = C10_Items(bank.zone, kw) \o C10_Items(Resolved, kw)
        /\ C10_AddCalls("sequencer_add") = {<<e.k, e.val>> : e \in C10_Union("sequencers")}
        /\ C10_AddCalls("arpeggiator_add") = {<<e.k, e.val>> : e \in C10_Union("arpeggiators")}
        /\ C10_SendCalls("send_sysex") =
              C10_Items(bank.zone, "sysex") \o C10_Items(Resolved, "sysex")
        /\ C10_SendCalls("send_event") =
              C10_Items(bank.zone, "messages") \o C10_Items(Resolved, "messages")
C10_Witness ==
    /\ Applied
    /\ \E e \in SeqToSet(C10_Items(bank.zone, "sequencers")) :
          \E f \in SeqToSet(C10_Items(Resolved, "sequencers")) :
              /\ e.k = f.k
              /\ e.val # f.val
              /\ <<"sequencer_add", f.k, f.val>> \in SeqToSet(fsynth.log)
    /\ C10_Items(bank.zone, "sysex") # <<>>
    /\ C10_Items(Resolved, "sysex") # <<>>

\* the last call was the signal handler, on a signal with a patch attribute
C11_PatchSignal == last.op = "midisignal" /\ last.sig.haspatch
\* the last signal was delivered once, rewritten to patch and val
C11_DeliveredAs(patch, val) ==
    /\ last.raised = ""
    /\ last.delivered = <<[last.sig EXCEPT !.patch = IntRef(patch), !.val = val]>>
\* the four-case policy on the last signal, the cases tried in order
C11_Policy ==
    LET s == last.sig.patch.s
        names == Keys(bank.patches)
        n == Len(names)
    IN  IF \E i \in 1..n : names[i] = s
        THEN \E i \in 1..n :
                /\ names[i] = s
                /\ \A j \in 1..(i - 1) : names[j] # s
                /\ C11_DeliveredAs(i - 1, last.sig.val)
        ELSE IF s = select
        THEN /\ n > 0
             /\ \E i \in 0..(n - 1) :
                   /\ (last.sig.val - i) % n = 0
                   /\ C11_DeliveredAs(i, last.sig.val)
        ELSE IF s # <<>> /\ s[Len(s)] \in {"+", "-"}
        THEN /\ IsDigits(Front(s))
             /\ C11_DeliveredAs(0 - 1, C7_Sign(s[Len(s)]) * ParseDigits(Front(s), 0))
        ELSE C11_DeliveredAs(0 - 1, 0)
\* C11: every signal with a patch attribute is delivered once, rewritten by the
\* four-case policy (patch name, 'select', signed step, anything else), and a
\* signal without a patch attribute is delivered once, unchanged.
C11_FourCasePolicy ==
    last.op = "midisignal" =>
        IF last.sig.haspatch THEN C11_Policy
        ELSE last.raised = "" /\ last.delivered = <<last.sig>>
\* the same, for the signals the handler does deliver
C11_PolicyWhenDelivered ==
    (last.op = "midisignal" /\ last.raised = "") =>
        IF last.sig.haspatch THEN C11_Policy ELSE last.delivered = <<last.sig>>

\* the last signal's patch value is none of: a patch name, 'select', a value
\* ending in a sign
C12_Unrecognised ==
    /\ last.sig.patch.s \notin SeqToSet(Keys(bank.patches))
    /\ last.sig.patch.s # select
    /\ \/ last.sig.patch.s = <<>>
       \/ last.sig.patch.s[Len(last.sig.patch.s)] \notin {"+", "-"}
\* C12: the handler never raises on a signal with a patch attribute, and
\* delivers a patch value it does not recognise as patch = -1, val = 0.
C12_NeverRaises ==
    C11_PatchSignal =>
        /\ last.raised = ""
        /\ C12_Unrecognised => C11_DeliveredAs(0 - 1, 0)

\* the step is an add_patch whose addlike is the index or the name of a patch
\* the bank holds before the call
C13_AddLikeExists ==
    /\ last'.op = "add_patch"
    /\ \/ last'.patch.t = "int" /\ 0 <= last'.patch.i /\ last'.patch.i < Len(bank.patches)
       \/ last'.patch.t = "str" /\ \E i \in 1..Len(bank.patches) : bank.patches[i].k = last'.patch.s
\* that patch, as the bank holds it before the call
C13_Original ==
    IF last'.patch.t = "int" THEN bank.patches[last'.patch.i + 1].val
    ELSE bank.patches[CHOOSE i \in 1..Len(bank.patches) : bank.patches[i].k = last'.patch.s].val
\* the new patch holds the original's settings without its channel entries, and
\* the call returns the new patch's position
C13_Copied ==
    /\ last'.raised = ""
    /\ \E i \in 1..Len(bank'.patches) :
          /\ bank'.patches[i].k = last'.name
          /\ bank'.patches[i].val = [C13_Original EXCEPT !.ch = NoChannels]
          /\ last'.index = i - 1
C13_Step == C13_AddLikeExists => C13_Copied
\* C13: add_patch(name, addlike) with addlike the index (0 included) or the name
\* of an existing patch creates patch name as a copy of that patch's settings
\* without its channel preset assignments, and returns the new patch's index.
C13_AddLikeCopies == [][C13_Step]_vars
\* the same, for an addlike other than 0 that does not name the patch being added
C13_TruthyStep ==
    (C13_AddLikeExists /\ last'.patch # IntRef(0) /\ C13_Original = _resolve_patch(bank', last'.patch))
        => C13_Copied
C13_TruthyAddLikeCopies == [][C13_TruthyStep]_vars

\* the state is the one a successful solo_soundfont left
C14_Soloed == last.op = "solo_soundfont" /\ soundfonts = {last.soundfont}
\* a patch operation on that state keeps the residency set
C14_Step ==
    (C14_Soloed /\ last'.op \in {"apply_patch", "add_patch", "delete_patch"})
        => soundfonts' = {last.soundfont}
\* C14: once solo_soundfont(s) succeeded the residency set is {s} and stays {s}
\* across apply_patch, add_patch and delete_patch; only load_bank restores it.
C14_SoloSuspendsTracking == [][C14_Step]_vars
\* solo_soundfont itself: on success exactly {s} is resident and loaded, on a
\* failed load nothing is resident
C14_SoloResidency ==
    last.op = "solo_soundfont" =>
        \/ soundfonts = {last.soundfont} /\ fsynth.sfloaded = {last.soundfont}
        \/ soundfonts = {} /\ last.soundfont \notin sffiles

\* apply_patch run alone, from the synthesizer it was entered with
C15_Alone == apply_patch(ClearLog(last.before), bank, last.patch)
\* C15: a handler call between any two steps of an apply_patch in flight
\* delivers what the handler delivers alone, and the apply_patch makes the calls,
\* leaves the synthesizer and returns the warnings it does alone.
C15_ReentrantSafe ==
    /\ last.op \in {"applying", "apply_patch"} =>
          /\ last.raised = _midisignal_handler(bank, last.sig).raised
          /\ last.sig.haspatch => last.delivered = _midisignal_handler(bank, last.sig).delivered
          /\ \E n \in 0..Len(C15_Alone.s.log) : fsynth.log = SubSeq(C15_Alone.s.log, 1, n)
    /\ last.op = "apply_patch" =>
          /\ fsynth = C15_Alone.s
          /\ last.warnings = C15_Alone.warnings
C15_Witness ==
    /\ last.op = "apply_patch"
    /\ last.patch = StrRef(<<"b">>)
    /\ last.sig = Signal(TRUE, StrRef(<<"b">>), 5)
    /\ last.delivered = <<Signal(TRUE, IntRef(1), 5)>>
    /\ last.warnings = <<>>
    /\ Len(fsynth.log) > ApplySteps
    /\ fsynth = C15_Alone.s

\* the reference of the delete_patch step names no patch of the bank before it,
\* as _resolve_patch reads references
C16_Unresolved ==
    \/ last'.patch.t = "int" /\ (last'.patch.i < 0 \/ last'.patch.i >= Len(bank.patches))
    \/ last'.patch.t = "str" /\ \A i \in 1..Len(bank.patches) : bank.patches[i].k # last'.patch.s
\* the name the reference resolves to
C16_Name ==
    IF last'.patch.t = "int" THEN bank.patches[last'.patch.i + 1].k ELSE last'.patch.s
\* the step removed exactly that patch
C16_Deleted ==
    /\ last'.raised = ""
    /\ bank' = [bank EXCEPT !.patches = SelectSeq(@, LAMBDA e : e.k # C16_Name)]
C16_Step ==
    last'.op = "delete_patch" =>
        IF C16_Unresolved
        THEN last'.raised = "" /\ bank' = bank /\ soundfonts' = soundfonts
        ELSE C16_Deleted
\* C16: delete_patch with a reference _resolve_patch leaves unresolved changes
\* neither bank nor residency set and does not raise; with a reference that
\* resolves it deletes exactly the patch apply_patch would apply.
C16_DeleteResolvesLikeApply == [][C16_Step]_vars
\* the same, for the references that resolve
C16_ResolvedStep == (last'.op = "delete_patch" /\ ~C16_Unresolved) => C16_Deleted
C16_ResolvedDeletes == [][C16_ResolvedStep]_vars

\* the place of a facade call in the order of apply_patch's steps
C17_Rank(call) ==
    CASE call[1] \in {"program_select", "program_unset"} -> 1
      [] call[1] = "send_sysex" -> 2
      [] call[1] = "setting" -> 3
      [] call[1] = "players_clear" -> 4
      [] call[1] = "sequencer_add" -> 5
      [] call[1] = "arpeggiator_add" -> 6
      [] call[1] = "midiplayer_add" -> 7
      [] call[1] = "fxchain_clear" -> 8
      [] call[1] = "fxchain_add" -> 9
      [] call[1] = "fxchain_connect" -> 10
      [] call[1] = "router_default" -> 11
      [] call[1] = "router_clear" -> 12
      [] call[1] = "router_addrule" -> 13
      [] call[1] = "send_event" -> 14
      [] OTHER -> 0
\* how many calls of the last operation have one of the names
C17_Count(names) == Len(SelectSeq(fsynth.log, LAMBDA c : c[1] \in names))
\* C17: apply_patch issues its calls in the fixed order of its steps (presets
\* per channel ascending, sysex, settings, players clear and adds, effect chain
\* clear, adds and connect, router reset and rules, messages) and runs every
\* step, whether or not preset selections fail.
C17_FixedStepOrder ==
    Applied =>
        /\ \A i \in 1..Len(fsynth.log) : C17_Rank(fsynth.log[i]) > 0
        /\ \A i \in 1..(Len(fsynth.log) - 1) :
              C17_Rank(fsynth.log[i]) <= C17_Rank(fsynth.log[i + 1])
        /\ \A ch \in Channels :
              /\ C17_Rank(fsynth.log[ch]) = 1
              /\ fsynth.log[ch][2] = ToString(ch)
        /\ C17_Count({"program_select", "program_unset"}) = MaxChannels
        /\ C17_Count({"players_clear"}) = 1
        /\ C17_Count({"fxchain_clear"}) = 1
        /\ C17_Count({"fxchain_connect"}) = 1
        /\ C17_Count({"router_default"}) = 1
        /\ C17_Count({"send_sysex"}) = Len(C10_Items(bank.zone, "sysex") \o C10_Items(Resolved, "sysex"))
        /\ C17_Count({"send_event"}) =
              Len(C10_Items(bank.zone, "messages") \o C10_Items(Resolved, "messages"))
        /\ C17_Count({"sequencer_add"}) = Cardinality(C10_Union("sequencers"))
        /\ C17_Count({"arpeggiator_add"}) = Cardinality(C10_Union("arpeggiators"))
        /\ C17_Count({"midiplayer_add"}) = Cardinality(C10_Union("midiplayers"))
        /\ C17_Count({"fxchain_add"}) = Cardinality(C10_Union("ladspafx")) + 1
        /\ C17_Count({"setting"}) =
              Cardinality({e \in C10_Union("fluidsettings") : e.k \notin NonSynthOptions})
        /\ C17_Count({"router_addrule"}) + C17_Count({"router_clear"}) <= Len(MergedRules)
C17_Witness ==
    /\ Applied
    /\ Len(last.warnings) = 2
    /\ C17_Count({"send_sysex"}) > 1
    /\ C17_Count({"setting"}) > 0
    /\ C17_Count({"midiplayer_add"}) > 1
    /\ C17_Count({"fxchain_add"}) > 1
    /\ C17_Count({"router_clear"}) = 1
    /\ C17_Count({"router_addrule"}) > 1
    /\ fsynth.log[Len(fsynth.log)][1] = "send_event"

\* the synthesizer after apply_patch(q) then apply_patch(p), from the current one
C18_After(q, p) ==
    apply_patch(ClearLog(apply_patch(ClearLog(fsynth), bank, q).s), bank, p).s
\* C18: whatever patch was applied before, apply_patch(p) leaves the same
\* synthesizer state (presets, players, effect chain, router, settings).
C18_FullReplacement ==
    Applied =>
        \A q1, q2, p \in Refs : SynthState(C18_After(q1, p)) = SynthState(C18_After(q2, p))
\* the same, for the router rules alone
C18_RouterReplaced ==
    Applied => \A q1, q2, p \in Refs : C18_After(q1, p).router = C18_After(q2, p).router

\* the soundfonts the step's operation asked the facade to load, to unload
C19_Calls(name) == SelectSeq(fsynth'.log, LAMBDA c : c[1] = name)
C19_Fonts(name) == {C19_Calls(name)[i][2] : i \in 1..Len(C19_Calls(name))}
\* the step is a load_bank, delete_patch or solo_soundfont
C19_ResidencyStep == last'.op \in {"load_bank", "delete_patch", "solo_soundfont"}
C19_Step ==
    C19_ResidencyStep =>
        /\ soundfonts' = fsynth'.sfloaded
        /\ soundfonts' \subseteq sffiles
        /\ last'.op = "solo_soundfont" => last'.raised = ""
        /\ last'.raised = "" =>
              /\ C19_Fonts("load_soundfont") \cap soundfonts = {}
              /\ C19_Fonts("unload_soundfont") \subseteq soundfonts
              /\ Len(C19_Calls("load_soundfont")) = Cardinality(C19_Fonts("load_soundfont"))
              /\ Len(C19_Calls("unload_soundfont")) = Cardinality(C19_Fonts("unload_soundfont"))
              /\ last'.op # "solo_soundfont" => soundfonts' = SfNeeded(bank') \cap sffiles
              /\ last'.op = "solo_soundfont" => soundfonts' = {last'.soundfont} \cap sffiles
\* C19: after every load_bank, delete_patch and solo_soundfont the residency set
\* is the set of soundfonts loaded in the facade; a soundfont that fails to load
\* is left out without raising and without stopping the other loads and
\* unloads; nothing resident is loaded again, nothing else is unloaded.
C19_ResidencyIsLoaded == [][C19_Step]_vars
C19_Witness ==
    /\ last.op = "load_bank"
    /\ last.raised = ""
    /\ sffiles = {"a.sf2"}
    /\ SfNeeded(bank) = {"a.sf2", "b.sf2"}
    /\ <<"load_soundfont", "b.sf2">> \in SeqToSet(fsynth.log)
    /\ soundfonts = {"a.sf2"}
    /\ fsynth.sfloaded = {"a.sf2"}

\* the configuration apply_patch merges for a patch reference: the preset of
\* every channel and the merge of every keyword
C20_Merged(b, patch) ==
    [ch |-> [c \in Channels |-> ChanPreset(b.zone, _resolve_patch(b, patch), c)],
     kw |-> [k \in MapFields \cup SeqFields |-> mrg(b.zone, _resolve_patch(b, patch), k)]]
C20_Step ==
    last'.op = "apply_patch" =>
        /\ bank' = bank
        /\ soundfonts' = soundfonts
        /\ C20_Merged(bank', last'.patch) = C20_Merged(bank, last'.patch)
\* C20: apply_patch changes neither the bank document nor the residency set,
\* whatever the patch reference, so applying the same patch again merges the
\* same configuration.
C20_ApplyLeavesBank == [][C20_Step]_vars
C20_Witness ==
    /\ last.op = "apply_patch"
    /\ _resolve_patch(bank, last.patch).fluidsettings.t = "dict"
    /\ \E i \in 1..Len(fsynth.log) : fsynth.log[i][1] = "setting"
    /\ \E e \in SeqToSet(_resolve_patch(bank, last.patch).fluidsettings.v) :
           StartsWithSynth(e.k)
    /\ soundfonts # {}

\* a handler run has ended with one control-thread mutation between its reads
C21_Raced == last.op = "midisignal" /\ Len(last.lists) = 2
\* the positions of the signal's patch name in the patch list before and after
C21_Positions ==
    {IntRef(Index(last.lists[k], last.sig.patch.s) - 1) :
        k \in {k \in 1..2 : last.sig.patch.s \in SeqToSet(last.lists[k])}}
\* C21: when delete_patch, add_patch or load_bank changes the patch list between
\* the handler's reads of it, the handler does not raise, and the index it
\* delivers for a named patch is the patch's position before or after the change.
C21_ConcurrentHandlerSafe ==
    C21_Raced =>
        /\ last.raised = ""
        /\ last.branch = "index" => last.delivered[1].patch \in C21_Positions
\* without a change between the reads the handler behaves as when run alone
C21_AloneAsSequential ==
    (last.op = "midisignal" /\ Len(last.lists) = 1) =>
        /\ last.raised = _midisignal_handler(bank, last.sig).raised
        /\ last.delivered = _midisignal_handler(bank, last.sig).delivered
\* a named patch that is still in the list at the second read is delivered at
\* its position after the change
C21_PositionAfter ==
    (C21_Raced /\ last.branch = "index" /\ last.raised = "") =>
        /\ last.sig.patch.s \in SeqToSet(last.lists[2])
        /\ last.delivered[1].patch = IntRef(Index(last.lists[2], last.sig.patch.s) - 1)
\* the only exceptions a change between the reads brings
C21_RacedRaises ==
    (C21_Raced /\ last.raised # "") =>
        \/ /\ last.branch = "index"
           /\ last.raised = "ValueError"
           /\ last.sig.patch.s \notin SeqToSet(last.lists[2])
        \/ /\ last.branch = "len"
           /\ last.raised = "ZeroDivisionError"
           /\ last.lists[2] = <<>>
====
